---- MODULE Spec2Model ----
(***************************************************************************)
(* Cloud device session and command dispatch of mowthosOS.                 *)
(*                                                                         *)
(*   main.py                        login, handle_command_with_retry,      *)
(*                                  setup_device_communication,            *)
(*                                  validate_mqtt_connection,              *)
(*                                  re_establish_cloud_session             *)
(*   src/services/mower/service.py  MowerService.authenticate_user,        *)
(*                                  execute_command and its helpers        *)
(*   src/services/base.py           BaseService.exponential_backoff        *)
(*                                                                         *)
(* A dispatch call is a coroutine: it is modelled as a process whose steps *)
(* are the stretches of code between two awaits of a collaborator          *)
(* (queue_command, the handshake calls, refresh_login, asyncio.sleep in    *)
(* the readiness polls).  The collaborators (HTTP login client, cloud      *)
(* gateway, MQTT transport) are the environment: the outcome of each of    *)
(* their calls is chosen nondeterministically.                             *)
(***************************************************************************)
EXTENDS Integers, Sequences, FiniteSets, TLC

VARIABLES
    sessions,         \* main.py session_manager.sessions, in insertion order
    devices,          \* main.py mammotion.device_manager: name -> handle
    mqtt_list,        \* main.py mammotion.mqtt_list: account -> transport id
    cloud,            \* the CloudIOTGateway objects: id -> session fields
    mqtt,             \* the MammotionCloud transports: id -> connected, ready
    nextId,           \* id of the next cloud client / transport created
    calls,            \* the handle_command_with_retry calls in flight
    served,           \* devices a successful, bootstrapped call has completed on
    faults,           \* number of collaborator failures injected so far
    active_sessions,  \* MowerService.active_sessions, in insertion order
    mdevices,         \* MowerService.mammotion.device_manager: name -> handle
    mcall,            \* the MowerService.execute_command call in flight
    hrun,             \* the login / authenticate_user run in flight
    bo                \* the exponential_backoff execution in flight

vars == <<sessions, devices, mqtt_list, cloud, mqtt, nextId, calls, served,
          faults, active_sessions, mdevices, mcall, hrun, bo>>

mainVars == <<sessions, devices, mqtt_list, cloud, mqtt, nextId, calls, served>>
mowerVars == <<active_sessions, mdevices, mcall>>
authVars == <<hrun, bo>>

(***************************************************************************)
(* Bounds of the model.                                                    *)
(***************************************************************************)
MaxLogins == 1        \* route-level authenticate_user calls of the mower service
MaxFaults == 2        \* collaborator failures injected in one behaviour
MaxMowerFaults == 3   \* collaborator failures injected into the mower service
MaxDepth == 3         \* nesting depth of MowerService.execute_command explored
MaxBackoffRetries == 3 \* largest max_retries an exponential_backoff input takes

(***************************************************************************)
(* Program constants.                                                      *)
(***************************************************************************)
BackoffRetries == 3   \* max_retries=3 at every exponential_backoff call site
MaxRetries == 1       \* handle_command_with_retry(max_retries=1)
ReadyPolls == 10      \* for _ in range(10) in validate_mqtt_connection

(***************************************************************************)
(* Inputs and collaborator answers.                                        *)
(***************************************************************************)
Procs == {"p1", "p2"}
ClientIds == {1}
ReloginIds == {2}      \* ids of the cloud clients / transports logins create
Accounts == {"alice", "bob"}
Passwords == {"pw", ""}
NoHint == "-"
Hints == {NoHint, "Luba-1", "Luba-2"}
CallDevices == {"Luba-1", "Luba-2", "Ghost-9"}
CallCommands == {"stop_mowing", "fly"}

\* devices_by_account_response of each account (list_binding_by_account)
Bindings(account) ==
    IF account = "alice" THEN <<"Luba-1", "Luba-2">>
    ELSE <<"RTK-7", "Luba-1">>

\* outcomes of one awaited collaborator call
Ok == "ok"
RateLimited == "rate"         \* an error whose text holds "429"
Err29003 == "e29003"          \* SetupException(29003, iot_id)
ErrSetup == "esetup"          \* SetupException with another code
ErrOther == "eother"          \* any other exception
CommandOutcomes == {Ok, RateLimited, Err29003, ErrSetup, ErrOther}
CallOutcomes == {Ok, RateLimited, ErrOther}

\* session_by_authcode_response.data as the cloud may return it
ValidSession == [identityId |-> "id", iotToken |-> "tok", refreshToken |-> "ref"]
BlankSession == [identityId |-> "", iotToken |-> "tok", refreshToken |-> "ref"]
SpaceSession == [identityId |-> " ", iotToken |-> "tok", refreshToken |-> "ref"]
NoRefreshSession == [identityId |-> "id", iotToken |-> "tok", refreshToken |-> ""]
SessionAnswers == {ValidSession, BlankSession, SpaceSession, NoRefreshSession}

(***************************************************************************)
(* Pure helpers of main.py.                                                *)
(***************************************************************************)

\* the if/elif chain of handle_command_with_retry; "" stands for the else
\* branch (unknown command)
CommandTable(command) ==
    CASE command = "start_mowing" -> "start_job"
      [] command = "stop_mowing" -> "cancel_job"
      [] command = "pause_mowing" -> "pause_execute_task"
      [] command = "resume_mowing" -> "resume_execute_task"
      [] command = "return_to_dock" -> "return_to_dock"
      [] OTHER -> ""

\* the nine queue_command calls of setup_device_communication, in order
BootSequence ==
    << [name |-> "send_todev_ble_sync", arg |-> 3],
       [name |-> "get_report_cfg_stop", arg |-> 0],
       [name |-> "get_report_cfg", arg |-> 0],
       [name |-> "read_and_set_rtk_paring_code", arg |-> 1],
       [name |-> "send_todev_ble_sync", arg |-> 3],
       [name |-> "read_and_set_rtk_paring_code", arg |-> 1],
       [name |-> "read_and_set_rtk_paring_code", arg |-> 1],
       [name |-> "send_todev_ble_sync", arg |-> 3],
       [name |-> "read_and_set_rtk_paring_code", arg |-> 1] >>

\* str.strip() on the identities the cloud can answer
Strip(s) == IF s = " " THEN "" ELSE s

\* device.deviceName.startswith(("Luba-", "Yuka-"))
Compatible(name) == name \in {"Luba-1", "Luba-2", "Yuka-1"}

\* a cloud client (CloudIOTGateway with its mammotion_http) as the handshake
\* of login leaves it: session_by_authcode_response.data as answered, and
\* for each response the client stores (login_info, region_response,
\* aep_response, session_by_authcode_response) the number of later handshake
\* calls that have stored it again
NewClient(answer) ==
    [identityId |-> answer.identityId, iotToken |-> answer.iotToken,
     refreshToken |-> answer.refreshToken,
     login_run |-> 0, region_run |-> 0, aep_run |-> 0, session_run |-> 0]

\* the handshake call step has returned on the client: the client stores
\* the response (connect and login_by_oauth store nothing the program reads)
Stored(client, step, answer) ==
    CASE step = "login" -> [client EXCEPT !.login_run = @ + 1]
      [] step = "get_region" -> [client EXCEPT !.region_run = @ + 1]
      [] step = "aep_handle" -> [client EXCEPT !.aep_run = @ + 1]
      [] step = "session_by_auth_code" ->
            [client EXCEPT !.identityId = answer.identityId,
                           !.iotToken = answer.iotToken,
                           !.refreshToken = answer.refreshToken,
                           !.session_run = @ + 1]
      [] OTHER -> client

is_cloud_session_valid(data) ==
    /\ data.identityId # ""
    /\ Strip(data.identityId) # ""
    /\ data.iotToken # ""
    /\ data.refreshToken # ""

\* index of the first session (dict order) with session["device_name"] ==
\* device_name, 0 when the loop finds none
SessionIndex(ss, device_name) ==
    IF \E i \in 1..Len(ss) : ss[i].device_name = device_name
    THEN CHOOSE i \in 1..Len(ss) :
            /\ ss[i].device_name = device_name
            /\ \A j \in 1..(i - 1) : ss[j].device_name # device_name
    ELSE 0

\* the lookup loop of handle_command_with_retry: communication_setup_done
SetupDone(ss, device_name) ==
    LET i == SessionIndex(ss, device_name)
    IN  IF i = 0 THEN FALSE ELSE ss[i].communication_setup_done

\* the marking loop: session["communication_setup_done"] = True; break
MarkSetupDone(ss, device_name) ==
    LET i == SessionIndex(ss, device_name)
    IN  IF i = 0 THEN ss
        ELSE [k \in 1..Len(ss) |->
                IF ss[k].device_name = device_name
                THEN [ss[k] EXCEPT !.communication_setup_done = @ \/ k = i,
                                   !.refreshed = FALSE]
                ELSE ss[k]]

\* user_account of the 29003 handler ("" stands for None)
AccountOf(ss, device_name) ==
    LET i == SessionIndex(ss, device_name)
    IN  IF i = 0 THEN "" ELSE ss[i].account

\* the password lookup of re_establish_cloud_session ("" when none is found
\* or the stored one is empty: both fail "if not password")
PasswordOf(ss, device_name, user_account) ==
    LET hit(i) == ss[i].device_name = device_name /\ ss[i].account = user_account
    IN  IF \E i \in 1..Len(ss) : hit(i)
        THEN ss[CHOOSE i \in 1..Len(ss) :
                    hit(i) /\ \A j \in 1..(i - 1) : ~hit(j)].password
        ELSE ""

\* exponential_backoff (main.py): after a failed attempt, is the operation
\* tried again?  Only a rate-limit error before the last attempt is.
BackoffRetries_main(outcome, try) ==
    outcome = RateLimited /\ try < BackoffRetries - 1

\* the guard written "attempt <= max_retries"
CanRetry_inclusive(attempt) == attempt <= MaxRetries

\* the handlers' guard "if attempt < max_retries"
CanRetry(attempt) == attempt < MaxRetries

(***************************************************************************)
(* login (main.py): one handler run, with the collaborators' answers as    *)
(* inputs.  fail names the place where a collaborator fails:               *)
(*   "handshake"  a step of the handshake raises after its retries, or no  *)
(*                login info / a required response field is missing        *)
(*   "mqtt"       connect_async raises                                     *)
(*   "nodevices"  devices_by_account_response is empty                     *)
(*   "none"       every collaborator call succeeds                         *)
(* answer is the data of session_by_authcode_response.                     *)
(***************************************************************************)
LoginFailures == {"none", "handshake", "mqtt", "nodevices"}

\* devices_created: the compatible devices of the account, in binding order
DevicesCreated(account) == SelectSeq(Bindings(account), Compatible)

Range(seq) == {seq[i] : i \in 1..Len(seq)}

\* the device loop of login: a new handle is created suspended, an existing
\* handle only gets the new transport (replace_mqtt)
LoginDevices(dv, account, id) ==
    LET created == Range(DevicesCreated(account))
    IN  [n \in (DOMAIN dv) \cup created |->
            IF n \in created
            THEN IF n \in DOMAIN dv
                 THEN [dv[n] EXCEPT !.mqtt = id]
                 ELSE [cloud_client |-> id, mqtt |-> id, stopped |-> TRUE]
            ELSE dv[n]]

\* session_manager.create_session plus the communication_setup key login
\* adds; the communication_setup_done key is absent until a dispatch sets
\* it, and session.get(..., False) reads the absent key as False.
\* refreshed is history: refresh_session has been called on the session and
\* no bootstrap run for its device has completed since
NewSession(account, device_name, password) ==
    [account |-> account, device_name |-> device_name, password |-> password,
     communication_setup |-> FALSE, communication_setup_done |-> FALSE,
     refreshed |-> FALSE]

\* refresh_session (lines 144-165); the session ids are the positions in the
\* session store, any other id is unknown (401, nothing changes)
refresh_session(ss, session_id) ==
    IF session_id \in 1..Len(ss)
    THEN [ss EXCEPT ![session_id].communication_setup = FALSE,
                    ![session_id].refreshed = TRUE]
    ELSE ss

\* LoginStopsEarly without the check of identityId
LoginStopsEarly_noIdentity(fail, answer) ==
    \/ fail = "handshake"
    \/ fail = "mqtt"

\* does login raise before it creates the MQTT client and stores anything?
LoginStopsEarly(fail, answer) ==
    \/ fail = "handshake"
    \/ answer.identityId = ""
    \/ fail = "mqtt"

\* the device the session is created for ("" when the hint matches none)
TargetDevice(account, hint) ==
    IF hint = NoHint THEN DevicesCreated(account)[1]
    ELSE IF hint \in Range(DevicesCreated(account)) THEN hint
    ELSE ""

\* the body of the login route, from the handshake's answers on; the cloud
\* client and the transport it creates get the next free id
LoginBody(account, password, hint, fail, answer) ==
    /\ IF LoginStopsEarly(fail, answer)
       THEN UNCHANGED <<sessions, devices, mqtt_list, cloud, mqtt, nextId, served>>
       ELSE /\ cloud' = (nextId :> NewClient(answer)) @@ cloud
            /\ mqtt' = (nextId :> [connected |-> FALSE, ready |-> FALSE]) @@ mqtt
            /\ nextId' = nextId + 1
            /\ mqtt_list' = [mqtt_list EXCEPT ![account] = nextId]
            /\ IF fail = "nodevices" \/ DevicesCreated(account) = <<>>
               THEN UNCHANGED <<sessions, devices, served>>
               ELSE /\ devices' = LoginDevices(devices, account, nextId)
                    /\ served' = served \ Range(DevicesCreated(account))
                    /\ IF TargetDevice(account, hint) = ""
                       THEN UNCHANGED sessions
                       ELSE sessions' = Append(sessions,
                                NewSession(account, TargetDevice(account, hint), password))
    /\ UNCHANGED <<calls, faults>>
    /\ UNCHANGED mowerVars

\* the login route handled in one step, the answers of its collaborators
\* being the inputs
Login(account, password, hint, fail, answer) ==
    /\ nextId \in ClientIds
    /\ LoginBody(account, password, hint, fail, answer)
    /\ UNCHANGED authVars

(***************************************************************************)
(* The MQTT transport as the environment drives it: the connection that    *)
(* connect_async started comes up, becomes ready, or is lost.              *)
(***************************************************************************)
MqttConnected(id) ==
    /\ id \in DOMAIN mqtt
    /\ ~mqtt[id].connected
    /\ mqtt' = [mqtt EXCEPT ![id].connected = TRUE]
    /\ UNCHANGED <<sessions, devices, mqtt_list, cloud, nextId, calls, served, faults>>
    /\ UNCHANGED mowerVars
    /\ UNCHANGED authVars

MqttReady(id) ==
    /\ id \in DOMAIN mqtt
    /\ mqtt[id].connected
    /\ ~mqtt[id].ready
    /\ mqtt' = [mqtt EXCEPT ![id].ready = TRUE]
    /\ UNCHANGED <<sessions, devices, mqtt_list, cloud, nextId, calls, served, faults>>
    /\ UNCHANGED mowerVars
    /\ UNCHANGED authVars

MqttLost(id) ==
    /\ id \in DOMAIN mqtt
    /\ mqtt[id].connected
    /\ faults < MaxFaults
    /\ faults' = faults + 1
    /\ mqtt' = [mqtt EXCEPT ![id] = [connected |-> FALSE, ready |-> FALSE]]
    /\ UNCHANGED <<sessions, devices, mqtt_list, cloud, nextId, calls, served>>
    /\ UNCHANGED mowerVars
    /\ UNCHANGED authVars

(***************************************************************************)
(* handle_command_with_retry (main.py).                                    *)
(*                                                                         *)
(* A call record holds the coroutine's position (pc), its locals and, as   *)
(* history, what it has asked of the collaborators so far:                 *)
(*   sent       the operator commands sent through the transport           *)
(*   bootcmds   bootstrap sub-commands sent (queue_command calls of        *)
(*              setup_device_communication, retries included)              *)
(*   bootruns   runs of setup_device_communication started                 *)
(*   bootdone   runs of setup_device_communication that returned True      *)
(*   recov      runs of re_establish_cloud_session                         *)
(*   handshakes runs of re_establish_cloud_session that reached the login  *)
(*   refreshes  calls of mammotion.refresh_login                           *)
(*   connects   calls of mqtt.connect_async                                *)
(*   checks     reads of mqtt.is_connected() / mqtt.is_ready               *)
(*   validated  runs of validate_mqtt_connection that returned True        *)
(*   recovOk    the value the last re_establish_cloud_session returned     *)
(*   refreshOk  the last refresh_login returned without raising            *)
(*   rebooted   a run of setup_device_communication has returned True      *)
(*              since the last recovery or token refresh                   *)
(*   hlog       the handshake calls of re_establish_cloud_session, each    *)
(*              with the step called and whether it succeeded              *)
(*   bootlog    the sub-commands the last run of                           *)
(*              setup_device_communication has sent, in order (a retry of  *)
(*              the same sub-command is not listed again)                  *)
(*   bootacks   the number of sub-commands of that run acknowledged        *)
(*   bootrun    that run: "none", "running", "complete" (returned True)    *)
(*              or "failed" (returned False)                               *)
(*   relogged   when the call started, the account of the device had       *)
(*              logged in again after the device's bootstrap was marked    *)
(*              done, and the session of the later login was not marked    *)
(*   refreshed  when the call started, refresh_session had been called on  *)
(*              a session of the device and no bootstrap run for the       *)
(*              device had completed since                                 *)
(*   prior      when the call started, the last call for the device had    *)
(*              succeeded with the bootstrap completed                     *)
(*   ready0     when the call started, the device was registered, its      *)
(*              cloud session valid and its transport connected and ready  *)
(* The code between two awaits runs without interruption: it is computed   *)
(* by the operators below, which take the call record c, the sessions ss   *)
(* and the device registry dv and return them as they are at the next      *)
(* await (or at the end of the call).                                      *)
(***************************************************************************)
IdleCall ==
    [pc |-> "idle", dev |-> "", cmd |-> "", attempt |-> 0, mode |-> "first",
     step |-> 0, try |-> 0, polls |-> 0, hs |-> 0,
     sent |-> <<>>, bootcmds |-> 0, bootruns |-> 0, bootdone |-> 0,
     recov |-> 0, handshakes |-> 0, recovOk |-> FALSE, rebooted |-> FALSE,
     refreshes |-> 0, connects |-> 0, checks |-> 0,
     validated |-> 0, status |-> 0, detail |-> "", prior |-> FALSE,
     ready0 |-> FALSE, refreshOk |-> FALSE, hlog |-> <<>>,
     bootlog |-> <<>>, bootacks |-> 0, bootrun |-> "none",
     relogged |-> FALSE, refreshed |-> FALSE]

R(c, ss, dv) == [c |-> c, ss |-> ss, dv |-> dv]

\* the call ends by raising HTTPException(status, detail)
Failed(c, status, detail) ==
    [c EXCEPT !.pc = "done", !.status = status, !.detail = detail]

\* an HTTPException raised inside the try body is an Exception: the last
\* handler (except Exception) catches it and raises 500 "Command failed: ..."
RaisedInTry(c, detail) == Failed(c, 500, detail)

\* lines 364-378: the command is translated only here, after the validation
\* and the first-command setup
Translate(c, ss, dv) ==
    IF CommandTable(c.cmd) = ""
    THEN R(RaisedInTry(c, "UnknownCommand"), ss, dv)
    ELSE R([c EXCEPT !.pc = "send"], ss, dv)

\* StartSetup with the handle left as it is (stopped not cleared)
StartSetup_keepStopped(c, mode, ss, dv) ==
    R([c EXCEPT !.pc = "boot", !.mode = mode, !.step = 1, !.try = 0,
                !.bootruns = @ + 1, !.bootlog = <<>>, !.bootacks = 0,
                !.bootrun = "running"],
      ss, dv)

\* setup_device_communication up to its first queue_command: the handle is
\* enabled (stopped = False)
StartSetup(c, mode, ss, dv) ==
    R([c EXCEPT !.pc = "boot", !.mode = mode, !.step = 1, !.try = 0,
                !.bootruns = @ + 1, !.bootlog = <<>>, !.bootacks = 0,
                !.bootrun = "running"],
      ss, [dv EXCEPT ![c.dev].stopped = FALSE])

\* lines 344-362: first-command setup unless the session of the device
\* says it is done
Dispatch(c, ss, dv) ==
    LET c1 == [c EXCEPT !.validated = @ + 1]
    IN  IF SetupDone(ss, c.dev) THEN Translate(c1, ss, dv)
        ELSE StartSetup(c1, "first", ss, dv)

\* validate_mqtt_connection from "if not cloud_device.mqtt.is_ready" on:
\* when not ready, the first loop iteration reads is_ready again and sleeps
ReadyCheck(c, ss, dv) ==
    IF mqtt[dv[c.dev].mqtt].ready
    THEN Dispatch([c EXCEPT !.checks = @ + 1], ss, dv)
    ELSE R([c EXCEPT !.pc = "poll", !.polls = 1, !.checks = @ + 2], ss, dv)

\* Validate with an invalid cloud session only logged: the call goes on
Validate_advisory(c, ss, dv) ==
    IF ~is_cloud_session_valid(cloud[dv[c.dev].cloud_client])
    THEN Dispatch([c EXCEPT !.detail = "ConnectionNotReady"], ss, dv)
    ELSE IF ~mqtt[dv[c.dev].mqtt].connected
    THEN R([c EXCEPT !.pc = "vwait", !.connects = @ + 1, !.checks = @ + 1], ss, dv)
    ELSE ReadyCheck([c EXCEPT !.checks = @ + 1], ss, dv)

\* validate_mqtt_connection up to its first await
Validate(c, ss, dv) ==
    IF ~is_cloud_session_valid(cloud[dv[c.dev].cloud_client])
    THEN R(RaisedInTry(c, "ConnectionNotReady"), ss, dv)
    ELSE IF ~mqtt[dv[c.dev].mqtt].connected
    THEN R([c EXCEPT !.pc = "vwait", !.connects = @ + 1, !.checks = @ + 1], ss, dv)
    ELSE ReadyCheck([c EXCEPT !.checks = @ + 1], ss, dv)

\* Enter with the transport connect triggered before the device is looked up
Enter_connectFirst(c, ss, dv) ==
    IF c.dev \notin DOMAIN dv
    THEN R(RaisedInTry([c EXCEPT !.connects = @ + 1], "DeviceNotFound"), ss, dv)
    ELSE Validate(c, ss, dv)

\* the head of one loop iteration (lines 326-342)
Enter(c, ss, dv) ==
    IF c.dev \notin DOMAIN dv
    THEN R(RaisedInTry(c, "DeviceNotFound"), ss, dv)
    ELSE Validate(c, ss, dv)

\* "continue": the next iteration of "for attempt in range(max_retries + 1)",
\* or the end of the loop (the function then returns None)
Continue(c, ss, dv) ==
    IF c.attempt + 1 <= MaxRetries
    THEN Enter([c EXCEPT !.attempt = @ + 1], ss, dv)
    ELSE R([c EXCEPT !.pc = "done", !.status = 200, !.detail = "none"], ss, dv)

\* SetupReturned with the bootstrap result ignored after a recovery
SetupReturned_advisory(c, ok, ss, dv) ==
    LET ss1 == IF ok THEN MarkSetupDone(ss, c.dev) ELSE ss
        c1 == [c EXCEPT !.bootdone = IF ok THEN @ + 1 ELSE @,
                        !.rebooted = @ \/ ok,
                        !.bootrun = IF ok THEN "complete" ELSE "failed"]
    IN  IF c.mode = "first" THEN Translate(c1, ss1, dv)
        ELSE Continue(c1, ss1, dv)

\* setup_device_communication has returned ok to its call site: the
\* first-command setup (mode "first"), the 29003 handler ("recover") or the
\* handler of the other codes ("refresh")
SetupReturned(c, ok, ss, dv) ==
    LET ss1 == IF ok THEN MarkSetupDone(ss, c.dev) ELSE ss
        c1 == [c EXCEPT !.bootdone = IF ok THEN @ + 1 ELSE @,
                        !.rebooted = @ \/ ok,
                        !.bootrun = IF ok THEN "complete" ELSE "failed"]
    IN  CASE c.mode = "first" -> Translate(c1, ss1, dv)
          [] c.mode = "recover" ->
                IF ok THEN Continue(c1, ss1, dv)
                ELSE R(Failed(c1, 401, "IdentityBlank"), ss1, dv)
          [] OTHER ->
                IF ok THEN Continue(c1, ss1, dv)
                ELSE R(Failed(c1, 401, "SetupCode"), ss1, dv)

\* one bootstrap queue_command under exponential_backoff has answered
BootOutcome(c, outcome, ss, dv) ==
    LET c1 == [c EXCEPT !.bootcmds = @ + 1,
                        !.bootlog = IF c.try = 0 THEN Append(@, BootSequence[c.step])
                                    ELSE @,
                        !.bootacks = IF outcome = Ok THEN @ + 1 ELSE @]
    IN  IF outcome = Ok
        THEN IF c.step < Len(BootSequence)
             THEN R([c1 EXCEPT !.step = @ + 1, !.try = 0], ss, dv)
             ELSE SetupReturned(c1, TRUE, ss, dv)
        ELSE IF BackoffRetries_main(outcome, c.try)
             THEN R([c1 EXCEPT !.try = @ + 1], ss, dv)
             ELSE SetupReturned(c1, FALSE, ss, dv)

\* line 403: the result of re_establish_cloud_session is not used; the
\* handler goes on to setup_device_communication
RecoveryReturned(c, result, ss, dv) ==
    StartSetup([c EXCEPT !.recovOk = result], "recover", ss, dv)

\* re_establish_cloud_session up to its first await
StartRecovery(c, user_account, ss, dv) ==
    LET c1 == [c EXCEPT !.recov = @ + 1, !.rebooted = FALSE]
    IN  IF PasswordOf(ss, c.dev, user_account) = ""
        THEN RecoveryReturned(c1, FALSE, ss, dv)
        ELSE R([c1 EXCEPT !.pc = "hs", !.hs = 1, !.try = 0,
                          !.handshakes = @ + 1], ss, dv)

\* the handler of SetupException code 29003 (lines 384-429)
IdentityBlank(c, ss, dv) ==
    IF CanRetry(c.attempt) /\ AccountOf(ss, c.dev) # ""
    THEN StartRecovery(c, AccountOf(ss, c.dev), ss, dv)
    ELSE R(Failed(c, 401, "IdentityBlank"), ss, dv)

\* the handler of the other SetupException codes (lines 430-462), up to
\* the await of refresh_login; the login response of the device's cloud
\* client names the account
SetupError(c, ss, dv) ==
    IF CanRetry(c.attempt)
    THEN R([c EXCEPT !.pc = "refresh"], ss, dv)
    ELSE R(Failed(c, 401, "SetupCode"), ss, dv)

\* SendOutcome with every error handled like a cloud error of another code
SendOutcome_retryAll(c, outcome, ss, dv) ==
    LET c1 == [c EXCEPT !.sent = Append(@, CommandTable(c.cmd))]
    IN  CASE outcome = Ok ->
                R([c1 EXCEPT !.pc = "done", !.status = 200, !.detail = "ack"], ss, dv)
          [] outcome = Err29003 -> IdentityBlank(c1, ss, dv)
          [] outcome = ErrSetup -> SetupError(c1, ss, dv)
          [] OTHER -> SetupError([c1 EXCEPT !.detail = "CommandFailed"], ss, dv)

\* the operator command's queue_command has answered (lines 365-466)
SendOutcome(c, outcome, ss, dv) ==
    LET c1 == [c EXCEPT !.sent = Append(@, CommandTable(c.cmd))]
    IN  CASE outcome = Ok ->
                R([c1 EXCEPT !.pc = "done", !.status = 200, !.detail = "ack"], ss, dv)
          [] outcome = Err29003 -> IdentityBlank(c1, ss, dv)
          [] outcome = ErrSetup -> SetupError(c1, ss, dv)
          [] OTHER -> R(Failed(c1, 500, "CommandFailed"), ss, dv)

\* RefreshOutcome with the full handshake as the fallback of a failed
\* token refresh
RefreshOutcome_handshake(c, outcome, ss, dv) ==
    LET c1 == [c EXCEPT !.refreshes = @ + 1, !.refreshOk = (outcome = Ok),
                        !.rebooted = FALSE]
    IN  IF outcome = Ok THEN StartSetup(c1, "refresh", ss, dv)
        ELSE StartRecovery(c1, AccountOf(ss, c.dev), ss, dv)

\* mammotion.refresh_login has answered (lines 443-455)
RefreshOutcome(c, outcome, ss, dv) ==
    LET c1 == [c EXCEPT !.refreshes = @ + 1, !.refreshOk = (outcome = Ok),
                        !.rebooted = FALSE]
    IN  IF outcome = Ok THEN StartSetup(c1, "refresh", ss, dv)
        ELSE R(Failed(c1, 401, "SetupCode"), ss, dv)

\* the steps of the handshake re_establish_cloud_session re-runs
HandshakeSteps ==
    <<"login", "get_region", "connect", "login_by_oauth", "aep_handle",
      "session_by_auth_code">>

\* one handshake call under exponential_backoff has answered; answer is the
\* session data the last step stored in the cloud client
HandshakeOutcome(c, outcome, answer, ss, dv) ==
    LET c1 == [c EXCEPT !.hlog = Append(@, [step |-> HandshakeSteps[c.hs],
                                            ok |-> outcome = Ok])]
    IN  IF outcome = Ok
        THEN IF c.hs < Len(HandshakeSteps)
             THEN R([c1 EXCEPT !.hs = @ + 1, !.try = 0], ss, dv)
             ELSE RecoveryReturned(c1, answer.identityId # "", ss, dv)
        ELSE IF BackoffRetries_main(outcome, c.try)
             THEN R([c1 EXCEPT !.try = @ + 1], ss, dv)
             ELSE RecoveryReturned(c1, FALSE, ss, dv)

(***************************************************************************)
(* The steps of a handle_command_with_retry call p.                        *)
(***************************************************************************)
Apply(p, r) ==
    /\ calls' = [calls EXCEPT ![p] = r.c]
    /\ sessions' = r.ss
    /\ devices' = r.dv

\* a collaborator failure uses up one unit of the failure budget
Charge(outcome) ==
    IF outcome = Ok THEN faults' = faults
    ELSE faults < MaxFaults /\ faults' = faults + 1

\* the device is registered, its cloud session is valid and its transport
\* is connected and ready
ReadyNow(device_name) ==
    /\ device_name \in DOMAIN devices
    /\ is_cloud_session_valid(cloud[devices[device_name].cloud_client])
    /\ mqtt[devices[device_name].mqtt].connected
    /\ mqtt[devices[device_name].mqtt].ready

\* the sessions hold a login of an account for the device whose session is
\* marked done, and a later login of the same account for the device whose
\* session is not
Relogged(ss, device_name) ==
    \E i, j \in 1..Len(ss) :
        /\ i < j
        /\ ss[i].device_name = device_name /\ ss[j].device_name = device_name
        /\ ss[i].account = ss[j].account
        /\ ss[i].communication_setup_done
        /\ ~ss[j].communication_setup_done

\* a session of the device has been refreshed, with no bootstrap run since
Refreshed(ss, device_name) ==
    \E i \in 1..Len(ss) : ss[i].device_name = device_name /\ ss[i].refreshed

\* the refresh_session coroutine: it has no await
RefreshSession(session_id) ==
    /\ sessions' = refresh_session(sessions, session_id)
    /\ UNCHANGED <<devices, mqtt_list, cloud, mqtt, nextId, calls, served, faults>>
    /\ UNCHANGED mowerVars
    /\ UNCHANGED authVars

StartCall(p, device_name, command) ==
    /\ calls[p].pc = "idle"
    /\ Apply(p, Enter([IdleCall EXCEPT !.dev = device_name, !.cmd = command,
                                       !.refreshed = Refreshed(sessions, device_name),
                                       !.relogged = Relogged(sessions, device_name),
                                       !.prior = device_name \in served,
                                       !.ready0 = ReadyNow(device_name)],
                      sessions, devices))
    /\ UNCHANGED <<mqtt_list, cloud, mqtt, nextId, served, faults>>
    /\ UNCHANGED mowerVars
    /\ UNCHANGED authVars

\* asyncio.sleep(2) after connect_async is over
ConnectWaited(p) ==
    /\ calls[p].pc = "vwait"
    /\ Apply(p, ReadyCheck(calls[p], sessions, devices))
    /\ UNCHANGED <<mqtt_list, cloud, mqtt, nextId, served, faults>>
    /\ UNCHANGED mowerVars
    /\ UNCHANGED authVars

\* Poll with the readiness loop going on until the transport is ready
Poll_noLimit(p) ==
    /\ calls[p].pc = "poll"
    /\ LET c == calls[p]
       IN  Apply(p,
             IF mqtt[devices[c.dev].mqtt].ready
             THEN Dispatch([c EXCEPT !.checks = @ + 1], sessions, devices)
             ELSE R([c EXCEPT !.polls = @ + 1, !.checks = @ + 1], sessions, devices))
    /\ UNCHANGED <<mqtt_list, cloud, mqtt, nextId, served, faults>>
    /\ UNCHANGED mowerVars
    /\ UNCHANGED authVars

\* one asyncio.sleep(1) of the readiness loop is over
Poll(p) ==
    /\ calls[p].pc = "poll"
    /\ LET c == calls[p]
       IN  Apply(p,
             IF c.polls = ReadyPolls
             THEN R(RaisedInTry(c, "ConnectionNotReady"), sessions, devices)
             ELSE IF mqtt[devices[c.dev].mqtt].ready
             THEN Dispatch([c EXCEPT !.checks = @ + 1], sessions, devices)
             ELSE R([c EXCEPT !.polls = @ + 1, !.checks = @ + 1], sessions, devices))
    /\ UNCHANGED <<mqtt_list, cloud, mqtt, nextId, served, faults>>
    /\ UNCHANGED mowerVars
    /\ UNCHANGED authVars

BootStep(p, outcome) ==
    /\ calls[p].pc = "boot"
    /\ Charge(outcome)
    /\ Apply(p, BootOutcome(calls[p], outcome, sessions, devices))
    /\ UNCHANGED <<mqtt_list, cloud, mqtt, nextId, served>>
    /\ UNCHANGED mowerVars
    /\ UNCHANGED authVars

SendStep(p, outcome) ==
    /\ calls[p].pc = "send"
    /\ Charge(outcome)
    /\ Apply(p, SendOutcome(calls[p], outcome, sessions, devices))
    /\ UNCHANGED <<mqtt_list, cloud, mqtt, nextId, served>>
    /\ UNCHANGED mowerVars
    /\ UNCHANGED authVars

RefreshStep(p, outcome) ==
    /\ calls[p].pc = "refresh"
    /\ Charge(outcome)
    /\ Apply(p, RefreshOutcome(calls[p], outcome, sessions, devices))
    /\ UNCHANGED <<mqtt_list, cloud, mqtt, nextId, served>>
    /\ UNCHANGED mowerVars
    /\ UNCHANGED authVars

\* the handshake runs on the cloud client of the device, in place
HandshakeStep(p, outcome, answer) ==
    /\ calls[p].pc = "hs"
    /\ Charge(IF outcome = Ok /\ answer # ValidSession THEN ErrOther ELSE outcome)
    /\ outcome = Ok \/ answer = ValidSession
    /\ calls[p].hs < Len(HandshakeSteps) => answer = ValidSession
    /\ cloud' = IF outcome = Ok
                THEN [cloud EXCEPT ![devices[calls[p].dev].cloud_client] =
                         Stored(@, HandshakeSteps[calls[p].hs], answer)]
                ELSE cloud
    /\ Apply(p, HandshakeOutcome(calls[p], outcome, answer, sessions, devices))
    /\ UNCHANGED <<mqtt_list, mqtt, nextId, served>>
    /\ UNCHANGED mowerVars
    /\ UNCHANGED authVars

\* the call has returned or raised: the caller has its result
Finish(p) ==
    /\ calls[p].pc = "done"
    /\ served' = IF calls[p].status = 200 /\ (calls[p].bootdone > 0 \/ calls[p].prior)
                 THEN served \cup {calls[p].dev}
                 ELSE served \ {calls[p].dev}
    /\ calls' = [calls EXCEPT ![p] = IdleCall]
    /\ UNCHANGED <<sessions, devices, mqtt_list, cloud, mqtt, nextId, faults>>
    /\ UNCHANGED mowerVars
    /\ UNCHANGED authVars

(***************************************************************************)
(* MowerService (src/services/mower/service.py).                           *)
(*                                                                         *)
(* A session is the object _create_session builds, with the fields the     *)
(* service reads and writes: account, password, devices and the            *)
(* communication_setup map (here the set of the device names mapped to     *)
(* True).  command is an object with a command kind and no parameters.     *)
(***************************************************************************)

\* BaseService.exponential_backoff: every error is retried, up to the last
\* attempt
BackoffRetries_base(outcome, try) ==
    outcome # Ok /\ try < BackoffRetries - 1

\* command_map of execute_command; "" stands for command_map.get -> None
CommandMap(command) ==
    CASE command = "start_mowing" -> "start_job"
      [] command = "stop_mowing" -> "cancel_job"
      [] command = "pause_mowing" -> "pause_execute_task"
      [] command = "resume_mowing" -> "resume_execute_task"
      [] command = "return_to_dock" -> "return_to_dock"
      [] command = "start_zone_mowing" -> "start_job"
      [] command = "emergency_stop" -> "emergency_stop"
      [] OTHER -> ""

\* sync_commands of _ensure_device_communication
SyncCommands ==
    << [name |-> "send_todev_ble_sync", arg |-> 3],
       [name |-> "get_report_cfg_stop", arg |-> 0],
       [name |-> "get_report_cfg", arg |-> 0],
       [name |-> "read_and_set_rtk_paring_code", arg |-> 1],
       [name |-> "send_todev_ble_sync", arg |-> 3],
       [name |-> "read_and_set_rtk_paring_code", arg |-> 1] >>

\* "Check if already set up": any session that lists the device and maps it
\* to True
AlreadySetUp(as, device_name) ==
    \E i \in 1..Len(as) :
        device_name \in as[i].devices /\ device_name \in as[i].communication_setup

\* index of the first session that lists the device, 0 when none does
OwnerIndex(as, device_name) ==
    IF \E i \in 1..Len(as) : device_name \in as[i].devices
    THEN CHOOSE i \in 1..Len(as) :
            /\ device_name \in as[i].devices
            /\ \A j \in 1..(i - 1) : device_name \notin as[j].devices
    ELSE 0

\* "Mark as set up": the first session that lists the device; break
MarkSetUp(as, device_name) ==
    LET i == OwnerIndex(as, device_name)
    IN  IF i = 0 THEN as
        ELSE [as EXCEPT ![i].communication_setup = @ \cup {device_name}]

\* _create_device_managers
CreateDeviceManagers(dv, account, id) ==
    LET created == Range(DevicesCreated(account))
    IN  [n \in (DOMAIN dv) \cup created |->
            IF n \in created
            THEN IF n \in DOMAIN dv
                 THEN [dv[n] EXCEPT !.mqtt = id]
                 ELSE [mqtt |-> id, stopped |-> TRUE]
            ELSE dv[n]]

\* does authenticate_user raise before _create_device_managers?
AuthStopsEarly(fail, answer) ==
    \/ fail = "handshake"
    \/ answer.identityId = ""
    \/ fail = "mqtt"

\* authenticate_user: the sessions and devices it leaves, and whether it
\* returned a session id (ok) or raised
Authenticate(as, dv, account, password, fail, answer) ==
    IF AuthStopsEarly(fail, answer)
    THEN [ok |-> FALSE, as |-> as, dv |-> dv]
    ELSE IF fail = "nodevices" \/ DevicesCreated(account) = <<>>
    THEN [ok |-> FALSE, as |-> as, dv |-> dv]
    ELSE [ok |-> TRUE,
          as |-> Append(as, [account |-> account, password |-> password,
                             devices |-> Range(DevicesCreated(account)),
                             communication_setup |-> {}]),
          dv |-> CreateDeviceManagers(dv, account, Len(as) + 1)]

IdleMowerCall ==
    [pc |-> "idle", dev |-> "", cmd |-> "", depth |-> 0, step |-> 0, try |-> 0,
     sent |-> <<>>, bootcmds |-> 0, bootruns |-> 0, bootdone |-> 0,
     recov |-> 0, rebooted |-> FALSE, ok |-> FALSE, detail |-> "",
     bootlog |-> <<>>, bootacks |-> 0, bootrun |-> "none"]

M(c, as, dv) == [c |-> c, as |-> as, dv |-> dv]

\* the call ends by raising
MRaised(c, detail) == [c EXCEPT !.pc = "done", !.ok = FALSE, !.detail = detail]

\* lines 212-231
MTranslate(c, as, dv) ==
    IF CommandMap(c.cmd) = ""
    THEN M(MRaised(c, "UnknownCommand"), as, dv)
    ELSE M([c EXCEPT !.pc = "send"], as, dv)

\* _ensure_device_communication up to its first queue_command
EnsureDeviceCommunication(c, as, dv) ==
    IF AlreadySetUp(as, c.dev) THEN MTranslate(c, as, dv)
    ELSE M([c EXCEPT !.pc = "boot", !.step = 1, !.try = 0, !.bootruns = @ + 1,
                     !.bootlog = <<>>, !.bootacks = 0, !.bootrun = "running"],
           as, [dv EXCEPT ![c.dev].stopped = FALSE])

\* execute_command up to its first await (lines 200-210)
MEnter(c, as, dv) ==
    IF c.dev \notin DOMAIN dv
    THEN M(MRaised(c, "DeviceNotFound"), as, dv)
    ELSE EnsureDeviceCommunication(c, as, dv)

\* the except clauses of execute_command, for an error raised in its try
\* body: 29003 goes to _refresh_cloud_session (up to the await of
\* authenticate_user), every other error is raised again
MHandle(c, outcome, as, dv) ==
    IF outcome = Err29003
    THEN IF OwnerIndex(as, c.dev) = 0
         THEN M(MRaised(c, "NoActiveSession"), as, dv)
         ELSE M([c EXCEPT !.pc = "refresh", !.recov = @ + 1, !.rebooted = FALSE],
                as, dv)
    ELSE M(MRaised(c, IF outcome = ErrSetup THEN "SetupCode" ELSE "CommandFailed"),
           as, dv)

\* one sync command under BaseService.exponential_backoff has answered
MBootOutcome(c, outcome, as, dv) ==
    LET c1 == [c EXCEPT !.bootcmds = @ + 1,
                        !.bootlog = IF c.try = 0 THEN Append(@, SyncCommands[c.step])
                                    ELSE @,
                        !.bootacks = IF outcome = Ok THEN @ + 1 ELSE @]
    IN  IF outcome = Ok
        THEN IF c.step < Len(SyncCommands)
             THEN M([c1 EXCEPT !.step = @ + 1, !.try = 0], as, dv)
             ELSE MTranslate([c1 EXCEPT !.bootdone = @ + 1, !.rebooted = TRUE,
                                        !.bootrun = "complete"],
                             MarkSetUp(as, c.dev), dv)
        ELSE IF BackoffRetries_base(outcome, c.try)
             THEN M([c1 EXCEPT !.try = @ + 1], as, dv)
             ELSE MHandle([c1 EXCEPT !.bootrun = "failed"], outcome, as, dv)

\* the operator command's queue_command has answered
MSendOutcome(c, outcome, as, dv) ==
    LET c1 == [c EXCEPT !.sent = Append(@, CommandMap(c.cmd))]
    IN  IF outcome = Ok
        THEN M([c1 EXCEPT !.pc = "done", !.ok = TRUE, !.detail = "ack"], as, dv)
        ELSE MHandle(c1, outcome, as, dv)

\* authenticate_user, awaited by _refresh_cloud_session with the account
\* and password of the first session that lists the device, has answered:
\* on success execute_command calls itself (line 247)
MRefreshOutcome(c, fail, answer, as, dv) ==
    LET owner == as[OwnerIndex(as, c.dev)]
        a == Authenticate(as, dv, owner.account, owner.password, fail, answer)
    IN  IF a.ok THEN MEnter([c EXCEPT !.depth = @ + 1], a.as, a.dv)
        ELSE M(MRaised(c, "AuthenticationFailed"), a.as, a.dv)

\* a collaborator failure of the mower service uses up one unit of its
\* failure budget (one sync command fails for good after BackoffRetries
\* failures)
MCharge(outcome) ==
    IF outcome = Ok THEN faults' = faults
    ELSE faults < MaxMowerFaults /\ faults' = faults + 1

MApply(r) ==
    /\ mcall' = r.c
    /\ active_sessions' = r.as
    /\ mdevices' = r.dv

\* the route's authenticate_user
MAuthenticate(account, password, fail, answer) ==
    /\ Len(active_sessions) < MaxLogins
    /\ LET a == Authenticate(active_sessions, mdevices, account, password, fail, answer)
       IN  active_sessions' = a.as /\ mdevices' = a.dv
    /\ UNCHANGED <<mcall, faults>>
    /\ UNCHANGED mainVars
    /\ UNCHANGED authVars

MStartCall(device_name, command) ==
    /\ mcall.pc = "idle"
    /\ MApply(MEnter([IdleMowerCall EXCEPT !.dev = device_name, !.cmd = command],
                     active_sessions, mdevices))
    /\ UNCHANGED faults
    /\ UNCHANGED mainVars
    /\ UNCHANGED authVars

MBootStep(outcome) ==
    /\ mcall.pc = "boot"
    /\ MCharge(outcome)
    /\ MApply(MBootOutcome(mcall, outcome, active_sessions, mdevices))
    /\ UNCHANGED mainVars
    /\ UNCHANGED authVars

MSendStep(outcome) ==
    /\ mcall.pc = "send"
    /\ MCharge(outcome)
    /\ MApply(MSendOutcome(mcall, outcome, active_sessions, mdevices))
    /\ UNCHANGED mainVars
    /\ UNCHANGED authVars

\* the recursion is followed down to MaxDepth nested calls
MRefreshStep(fail, answer) ==
    /\ mcall.pc = "refresh"
    /\ mcall.depth < MaxDepth
    /\ MApply(MRefreshOutcome(mcall, fail, answer, active_sessions, mdevices))
    /\ UNCHANGED faults
    /\ UNCHANGED mainVars
    /\ UNCHANGED authVars

MFinish ==
    /\ mcall.pc = "done"
    /\ mcall' = IdleMowerCall
    /\ UNCHANGED <<active_sessions, mdevices, faults>>
    /\ UNCHANGED mainVars
    /\ UNCHANGED authVars

(***************************************************************************)
(* exponential_backoff: the module function of main.py ("main") and        *)
(* BaseService.exponential_backoff ("base").  One execution is a record:   *)
(*   attempt   the loop variable                                           *)
(*   invoked   number of times func was awaited                            *)
(*   outcomes  what each await of func answered                            *)
(*   computed  min(delay * 2 ** attempt, max_delay) of the sleep in        *)
(*             progress, in seconds                                        *)
(*   slept     the sleep_time passed to asyncio.sleep for it, in half      *)
(*             seconds                                                     *)
(*   raised    the error the execution raised                              *)
(* Delays are whole seconds; the sleep times random.uniform can draw are   *)
(* taken on the half-second grid.                                          *)
(***************************************************************************)
Variants == {"main", "base"}
InitialDelays == {1, 2}
MaxDelays == {3, 10}

RECURSIVE Pow2(_)
Pow2(n) == IF n = 0 THEN 1 ELSE 2 * Pow2(n - 1)

Min(a, b) == IF a <= b THEN a ELSE b

\* the delay computed with the bound max_delay left out
ComputedDelay_uncapped(initial_delay, max_delay, attempt) ==
    initial_delay * Pow2(attempt)

\* min(delay * (2 ** attempt), max_delay); delay is never reassigned
ComputedDelay(initial_delay, max_delay, attempt) ==
    Min(initial_delay * Pow2(attempt), max_delay)

\* random.uniform(0.5 * sleep_time, sleep_time) when jitter, in half seconds
SleepTimes(computed, jitter) ==
    IF jitter THEN computed..(2 * computed) ELSE {2 * computed}

\* Retried_main with the retried error taken to be the unclassified one
Retried_main_wrongCode(outcome, attempt, max_retries) ==
    attempt # max_retries - 1 /\ outcome = ErrOther

\* main.py: a failed attempt is followed by another one only when it is not
\* the last and the error text holds "429" / "Too Many Requests"
Retried_main(outcome, attempt, max_retries) ==
    attempt # max_retries - 1 /\ outcome = RateLimited

\* BaseService: a failed attempt is followed by another one unless it is
\* the last
Retried_base(outcome, attempt, max_retries) ==
    attempt # max_retries - 1

Retried(variant, outcome, attempt, max_retries) ==
    IF variant = "main" THEN Retried_main(outcome, attempt, max_retries)
    ELSE Retried_base(outcome, attempt, max_retries)

IdleBackoff ==
    [pc |-> "idle", variant |-> "main", max_retries |-> 0, initial_delay |-> 0,
     max_delay |-> 0, jitter |-> FALSE, attempt |-> 0, invoked |-> 0,
     outcomes |-> <<>>, computed |-> 0, slept |-> 0, raised |-> ""]

\* the execution at its first await of func
NewBackoff(variant, max_retries, initial_delay, max_delay, jitter) ==
    [IdleBackoff EXCEPT !.pc = "call", !.variant = variant,
                        !.max_retries = max_retries,
                        !.initial_delay = initial_delay,
                        !.max_delay = max_delay, !.jitter = jitter]

\* the executions started with arguments of the bounded input sets
BackoffInputs ==
    {NewBackoff(v, n, d, m, j) :
        v \in Variants, n \in 1..MaxBackoffRetries, d \in InitialDelays,
        m \in MaxDelays, j \in BOOLEAN}

\* every call site of the handshakes: max_retries=3, initial_delay=2.0
SiteBackoff(variant) == NewBackoff(variant, BackoffRetries, 2, 10, TRUE)

\* one pass through the loop body: func has answered outcome; sleep_time is
\* the value drawn for the sleep, used when the attempt is retried
BackoffOutcome(b, outcome, sleep_time) ==
    LET b1 == [b EXCEPT !.invoked = @ + 1, !.outcomes = Append(@, outcome)]
    IN  IF outcome = Ok THEN [b1 EXCEPT !.pc = "returned"]
        ELSE IF Retried(b.variant, outcome, b.attempt, b.max_retries)
        THEN [b1 EXCEPT !.pc = "sleep",
                        !.computed = ComputedDelay(b.initial_delay, b.max_delay,
                                                   b.attempt),
                        !.slept = sleep_time]
        ELSE [b1 EXCEPT !.pc = "raised", !.raised = outcome]

(***************************************************************************)
(* The handshake of login (main.py) and of MowerService.authenticate_user, *)
(* one collaborator call at a time, each under exponential_backoff.  A run *)
(* is a record:                                                            *)
(*   step     index of the step being called                               *)
(*   log      the collaborator calls made, each with the step called and   *)
(*            whether it succeeded                                         *)
(*   answer   the data session_by_auth_code stored in the cloud client     *)
(*   fail     the failure met after the backed-off steps (LoginFailures)   *)
(*   created  the MQTT client was created                                  *)
(*   before   the size of the registries when the run started              *)
(***************************************************************************)
RunKinds == {"login", "authenticate"}

\* the calls login makes under exponential_backoff, in order
LoginSteps ==
    <<"login", "get_region", "connect", "login_by_oauth", "aep_handle",
      "session_by_auth_code", "get_all_error_codes">>

\* _establish_cloud_connection
CloudConnectionSteps ==
    <<"get_region", "connect", "login_by_oauth", "aep_handle",
      "session_by_auth_code", "get_all_error_codes">>

\* authenticate_user: the login, then _establish_cloud_connection
AuthSteps == <<"login">> \o CloudConnectionSteps

RunSteps(kind) == IF kind = "login" THEN LoginSteps ELSE AuthSteps

\* login uses the module function, the service the method it inherits
VariantOf(kind) == IF kind = "login" THEN "main" ELSE "base"

IdleRun ==
    [pc |-> "idle", kind |-> "login", account |-> "", password |-> "",
     hint |-> NoHint, step |-> 0, log |-> <<>>, answer |-> ValidSession,
     fail |-> "none", ok |-> FALSE, detail |-> "", created |-> FALSE,
     before |-> <<>>]

\* StepReturned with the error of a step logged and the run going on
StepReturned_skip(h, b, answer) ==
    IF h.step < Len(RunSteps(h.kind))
    THEN [h EXCEPT !.step = @ + 1,
                   !.answer = IF RunSteps(h.kind)[h.step] = "session_by_auth_code"
                              THEN answer ELSE @]
    ELSE [h EXCEPT !.pc = "post"]

\* the exponential_backoff execution b of the current step is over
StepReturned(h, b, answer) ==
    IF b.pc = "raised"
    THEN [h EXCEPT !.pc = "done", !.ok = FALSE, !.detail = "StepFailed"]
    ELSE IF h.step < Len(RunSteps(h.kind))
    THEN [h EXCEPT !.step = @ + 1,
                   !.answer = IF RunSteps(h.kind)[h.step] = "session_by_auth_code"
                              THEN answer ELSE @]
    ELSE [h EXCEPT !.pc = "post"]

\* what login answers: "ok", or the cause of its 401
LoginDetail(account, hint, fail, answer) ==
    IF fail = "handshake" THEN "LoginFailed"
    ELSE IF LoginStopsEarly(fail, answer)
    THEN IF fail = "mqtt" /\ answer.identityId # "" THEN "MqttFailed"
         ELSE "IdentityMissing"
    ELSE IF fail = "nodevices" \/ DevicesCreated(account) = <<>> THEN "NoDevices"
    ELSE IF TargetDevice(account, hint) = "" THEN "DeviceNotFound"
    ELSE "ok"

\* what authenticate_user raises, or "ok"
AuthDetail(account, fail, answer) ==
    IF AuthStopsEarly(fail, answer)
    THEN IF answer.identityId = "" THEN "IdentityMissing"
         ELSE IF fail = "handshake" THEN "LoginFailed"
         ELSE "MqttFailed"
    ELSE IF fail = "nodevices" \/ DevicesCreated(account) = <<>> THEN "NoDevices"
    ELSE "ok"

Registries ==
    [mqtt |-> DOMAIN mqtt, cloud |-> DOMAIN cloud, devices |-> DOMAIN devices,
     sessions |-> Len(sessions), mqtt_list |-> mqtt_list,
     mdevices |-> DOMAIN mdevices, active_sessions |-> Len(active_sessions)]

\* a login or an authenticate_user request arrives
HsStart(kind, account, password, hint) ==
    /\ hrun.pc = "idle" /\ bo.pc = "idle"
    /\ IF kind = "login" THEN nextId \in ClientIds
       ELSE Len(active_sessions) < MaxLogins /\ hint = NoHint
    /\ hrun' = [IdleRun EXCEPT !.pc = "step", !.kind = kind, !.account = account,
                               !.password = password, !.hint = hint, !.step = 1,
                               !.before = Registries]
    /\ bo' = SiteBackoff(VariantOf(kind))
    /\ UNCHANGED <<faults>>
    /\ UNCHANGED mainVars
    /\ UNCHANGED mowerVars

\* func is awaited once and answers; inside a handshake run the call is
\* a collaborator call of the run's current step
BackoffAttempt(outcome) ==
    /\ bo.pc = "call"
    /\ IF hrun.pc = "step" THEN Charge(outcome) ELSE faults' = faults
    /\ \E t \in SleepTimes(ComputedDelay(bo.initial_delay, bo.max_delay, bo.attempt),
                           bo.jitter) :
          /\ outcome = Ok => t = 2 * ComputedDelay(bo.initial_delay, bo.max_delay,
                                                   bo.attempt)
          /\ bo' = BackoffOutcome(bo, outcome, t)
    /\ hrun' = IF hrun.pc = "step"
               THEN [hrun EXCEPT !.log = Append(@,
                        [step |-> RunSteps(hrun.kind)[hrun.step],
                         ok |-> outcome = Ok])]
               ELSE hrun
    /\ UNCHANGED mainVars
    /\ UNCHANGED mowerVars

\* asyncio.sleep(sleep_time) is over: the next iteration of the loop
BackoffSlept ==
    /\ bo.pc = "sleep"
    /\ bo' = [bo EXCEPT !.pc = "call", !.attempt = @ + 1,
                        !.computed = 0, !.slept = 0]
    /\ UNCHANGED <<hrun, faults>>
    /\ UNCHANGED mainVars
    /\ UNCHANGED mowerVars

\* the step's exponential_backoff has returned or raised
HsNext(answer) ==
    /\ hrun.pc = "step"
    /\ bo.pc \in {"returned", "raised"}
    /\ (bo.pc = "raised" \/ RunSteps(hrun.kind)[hrun.step] # "session_by_auth_code")
          => answer = ValidSession
    /\ hrun' = StepReturned(hrun, bo, answer)
    /\ bo' = IF hrun'.pc = "step" THEN SiteBackoff(VariantOf(hrun.kind))
             ELSE IdleBackoff
    /\ UNCHANGED <<faults>>
    /\ UNCHANGED mainVars
    /\ UNCHANGED mowerVars

\* the rest of login, from list_binding_by_account on
LoginFinish(fail) ==
    /\ hrun.pc = "post" /\ hrun.kind = "login"
    /\ nextId \in ClientIds
    /\ LoginBody(hrun.account, hrun.password, hrun.hint, fail, hrun.answer)
    /\ hrun' = [hrun EXCEPT
                  !.pc = "done", !.fail = fail,
                  !.detail = LoginDetail(hrun.account, hrun.hint, fail, hrun.answer),
                  !.ok = LoginDetail(hrun.account, hrun.hint, fail, hrun.answer) = "ok",
                  !.created = ~LoginStopsEarly(fail, hrun.answer)]
    /\ UNCHANGED bo

\* the rest of authenticate_user, from _create_mqtt_client on
AuthFinish(fail) ==
    /\ hrun.pc = "post" /\ hrun.kind = "authenticate"
    /\ LET a == Authenticate(active_sessions, mdevices, hrun.account,
                             hrun.password, fail, hrun.answer)
       IN  /\ active_sessions' = a.as
           /\ mdevices' = a.dv
           /\ hrun' = [hrun EXCEPT
                         !.pc = "done", !.fail = fail, !.ok = a.ok,
                         !.detail = AuthDetail(hrun.account, fail, hrun.answer),
                         !.created = ~AuthStopsEarly(fail, hrun.answer)]
    /\ UNCHANGED <<mcall, faults, bo>>
    /\ UNCHANGED mainVars

\* the route has answered
HsReturn ==
    /\ hrun.pc = "done"
    /\ hrun' = IdleRun
    /\ UNCHANGED <<bo, faults>>
    /\ UNCHANGED mainVars
    /\ UNCHANGED mowerVars

(***************************************************************************)
(* Spec: main.py with logins, the transport events and one caller.         *)
(***************************************************************************)
EmptyMap == [x \in {} |-> x]

MowerInit ==
    /\ active_sessions = <<>>
    /\ mdevices = EmptyMap
    /\ mcall = IdleMowerCall

AuthIdle ==
    /\ hrun = IdleRun
    /\ bo = IdleBackoff

Init ==
    /\ sessions = <<>>
    /\ devices = EmptyMap
    /\ mqtt_list = [a \in Accounts |-> 0]
    /\ cloud = EmptyMap
    /\ mqtt = EmptyMap
    /\ nextId = 1
    /\ calls = [p \in Procs |-> IdleCall]
    /\ served = {}
    /\ faults = 0
    /\ MowerInit
    /\ AuthIdle

LoginRequest ==
    \E account \in Accounts, password \in Passwords, hint \in Hints,
       fail \in LoginFailures, answer \in SessionAnswers :
        Login(account, password, hint, fail, answer)

Transport ==
    \E id \in DOMAIN mqtt : MqttConnected(id) \/ MqttReady(id) \/ MqttLost(id)

Caller(p) ==
    \/ \E d \in CallDevices, k \in CallCommands : StartCall(p, d, k)
    \/ ConnectWaited(p)
    \/ Poll(p)
    \/ \E o \in CommandOutcomes : BootStep(p, o)
    \/ \E o \in CommandOutcomes : SendStep(p, o)
    \/ \E o \in CallOutcomes : RefreshStep(p, o)
    \/ \E o \in CallOutcomes, a \in SessionAnswers : HandshakeStep(p, o, a)
    \/ Finish(p)

Next == LoginRequest \/ Transport \/ Caller("p1")

Spec == Init /\ [][Next]_vars

(***************************************************************************)
(* SpecMower: the mower service with route-level authentications and one   *)
(* execute_command call at a time.                                         *)
(***************************************************************************)
MainIdle ==
    /\ sessions = <<>>
    /\ devices = EmptyMap
    /\ mqtt_list = [a \in Accounts |-> 0]
    /\ cloud = EmptyMap
    /\ mqtt = EmptyMap
    /\ nextId = 1
    /\ calls = [p \in Procs |-> IdleCall]
    /\ served = {}

InitMower == MainIdle /\ faults = 0 /\ MowerInit /\ AuthIdle

MAuthRequest ==
    \E account \in Accounts, password \in Passwords,
       fail \in LoginFailures, answer \in SessionAnswers :
        MAuthenticate(account, password, fail, answer)

MCaller ==
    \/ \E d \in CallDevices, k \in CallCommands : MStartCall(d, k)
    \/ \E o \in CommandOutcomes : MBootStep(o)
    \/ \E o \in CommandOutcomes : MSendStep(o)
    \/ \E f \in LoginFailures, a \in SessionAnswers : MRefreshStep(f, a)
    \/ MFinish

NextMower == MAuthRequest \/ MCaller

SpecMower == InitMower /\ [][NextMower]_vars

(***************************************************************************)
(* SpecConc: two handle_command_with_retry calls in flight at once, for    *)
(* the device of a session created by a successful login of alice whose    *)
(* transport is connected and ready.                                       *)
(***************************************************************************)
InitConc ==
    /\ sessions = <<NewSession("alice", "Luba-1", "pw")>>
    /\ devices = LoginDevices(EmptyMap, "alice", 1)
    /\ mqtt_list = [a \in Accounts |-> IF a = "alice" THEN 1 ELSE 0]
    /\ cloud = (1 :> NewClient(ValidSession))
    /\ mqtt = (1 :> [connected |-> TRUE, ready |-> TRUE])
    /\ nextId = 2
    /\ calls = [p \in Procs |-> IdleCall]
    /\ served = {}
    /\ faults = 0
    /\ MowerInit
    /\ AuthIdle

ConcCaller(p) ==
    \/ StartCall(p, "Luba-1", "stop_mowing")
    \/ \E o \in CommandOutcomes : BootStep(p, o)
    \/ \E o \in CommandOutcomes : SendStep(p, o)
    \/ \E o \in CallOutcomes : RefreshStep(p, o)
    \/ \E o \in CallOutcomes, a \in SessionAnswers : HandshakeStep(p, o, a)
    \/ Finish(p)

NextConc == \E p \in Procs : ConcCaller(p)

SpecConc == InitConc /\ [][NextConc]_vars

(***************************************************************************)
(* SpecRelogin: logins after a first one.  The initial state is the state  *)
(* after a successful login of alice and a successful first command for    *)
(* her device Luba-1 (bootstrap completed and marked, transport connected  *)
(* and ready); then one more login can succeed, of alice again or of bob,  *)
(* whose account also lists a device named Luba-1, and calls go on.        *)
(***************************************************************************)
InitRelogin ==
    /\ sessions = <<[NewSession("alice", "Luba-1", "pw")
                        EXCEPT !.communication_setup_done = TRUE]>>
    /\ devices = [LoginDevices(EmptyMap, "alice", 1)
                    EXCEPT !["Luba-1"].stopped = FALSE]
    /\ mqtt_list = [a \in Accounts |-> IF a = "alice" THEN 1 ELSE 0]
    /\ cloud = (1 :> NewClient(ValidSession))
    /\ mqtt = (1 :> [connected |-> TRUE, ready |-> TRUE])
    /\ nextId = 2
    /\ calls = [p \in Procs |-> IdleCall]
    /\ served = {"Luba-1"}
    /\ faults = 0
    /\ MowerInit
    /\ AuthIdle

Relogin ==
    \E account \in Accounts, fail \in LoginFailures, answer \in SessionAnswers :
        /\ nextId \in ReloginIds
        /\ LoginBody(account, "pw", NoHint, fail, answer)
        /\ UNCHANGED authVars

\* the transport of a login comes up
ReloginTransport ==
    \E id \in DOMAIN mqtt : MqttConnected(id) \/ MqttReady(id)

ReloginCaller(p) ==
    \/ \E d \in {"Luba-1", "Luba-2"} : StartCall(p, d, "stop_mowing")
    \/ ConnectWaited(p)
    \/ Poll(p)
    \/ \E o \in CommandOutcomes : BootStep(p, o)
    \/ \E o \in CommandOutcomes : SendStep(p, o)
    \/ \E o \in CallOutcomes : RefreshStep(p, o)
    \/ \E o \in CallOutcomes, a \in {ValidSession, BlankSession} :
          HandshakeStep(p, o, a)
    \/ Finish(p)

NextRelogin == Relogin \/ ReloginTransport \/ ReloginCaller("p1")

SpecRelogin == InitRelogin /\ [][NextRelogin]_vars

(***************************************************************************)
(* SpecRefresh: refresh_session.  The initial state is the one of          *)
(* SpecRelogin (alice logged in, the bootstrap of Luba-1 completed and     *)
(* marked); sessions are refreshed, by a known or an unknown id, and calls *)
(* for Luba-1 go on.                                                       *)
(***************************************************************************)
RefreshRequest == \E session_id \in 0..Len(sessions) : RefreshSession(session_id)

NextRefresh == RefreshRequest \/ ConcCaller("p1")

SpecRefresh == InitRelogin /\ [][NextRefresh]_vars

(***************************************************************************)
(* SpecValidate: validate_mqtt_connection.  alice is logged in; her cloud  *)
(* session and the state of her transport are any the program can be in;   *)
(* the transport comes up and is lost while one call at a time validates   *)
(* the connection.  The sleeps of validate_mqtt_connection end (the event  *)
(* loop resumes a coroutine whose sleep is over): weak fairness of         *)
(* ConnectWaited and Poll.                                                 *)
(***************************************************************************)
InitValidate ==
    /\ sessions = <<NewSession("alice", "Luba-1", "pw")>>
    /\ devices = LoginDevices(EmptyMap, "alice", 1)
    /\ mqtt_list = [a \in Accounts |-> IF a = "alice" THEN 1 ELSE 0]
    /\ \E a \in SessionAnswers : cloud = (1 :> NewClient(a))
    /\ \E k \in BOOLEAN, r \in BOOLEAN :
          /\ r => k
          /\ mqtt = (1 :> [connected |-> k, ready |-> r])
    /\ nextId = 2
    /\ calls = [p \in Procs |-> IdleCall]
    /\ served = {}
    /\ faults = 0
    /\ MowerInit
    /\ AuthIdle

ValidateCaller(p) ==
    \/ \E d \in CallDevices : StartCall(p, d, "stop_mowing")
    \/ ConnectWaited(p)
    \/ Poll(p)
    \/ BootStep(p, Ok)
    \/ SendStep(p, Ok)
    \/ Finish(p)

NextValidate == Transport \/ ValidateCaller("p1")

SpecValidate ==
    /\ InitValidate /\ [][NextValidate]_vars
    /\ WF_vars(ConnectWaited("p1")) /\ WF_vars(Poll("p1"))

(***************************************************************************)
(* SpecLookup: the device lookup of both dispatchers.  Logins and          *)
(* authentications fill the two registries, and calls are started for      *)
(* every device name; a call for a registered device is left at its first  *)
(* await (Spec and SpecMower follow it from there).                        *)
(***************************************************************************)
NextLookup ==
    \/ LoginRequest
    \/ Transport
    \/ MAuthRequest
    \/ \E d \in CallDevices, k \in CallCommands : StartCall("p1", d, k)
    \/ Finish("p1")
    \/ \E d \in CallDevices, k \in CallCommands : MStartCall(d, k)
    \/ MFinish

SpecLookup == Init /\ [][NextLookup]_vars

(***************************************************************************)
(* SpecAuth: exponential_backoff and the handshakes.  An initial state     *)
(* either holds an exponential_backoff execution with arguments of the     *)
(* input sets, which then runs alone, or none: then logins and             *)
(* authentications run step by step, and calls for a registered, ready     *)
(* device follow a login; their bootstrap succeeds and their send either  *)
(* succeeds or raises 29003, whose recovery re-runs the handshake.         *)
(* Requests arrive one at a time.                                          *)
(***************************************************************************)
InitAuth ==
    /\ MainIdle /\ faults = 0 /\ MowerInit
    /\ hrun = IdleRun
    /\ bo \in {IdleBackoff} \cup BackoffInputs

Backoff ==
    \/ \E o \in CallOutcomes : BackoffAttempt(o)
    \/ BackoffSlept

Handshake ==
    \/ \E k \in RunKinds, account \in Accounts :
          calls["p1"].pc = "idle" /\ HsStart(k, account, "pw", NoHint)
    \/ \E a \in SessionAnswers : HsNext(a)
    \/ \E f \in LoginFailures : LoginFinish(f)
    \/ \E f \in LoginFailures : AuthFinish(f)
    \/ HsReturn

AuthCaller(p) ==
    \/ \E d \in CallDevices :
          hrun.pc = "idle" /\ ReadyNow(d) /\ StartCall(p, d, "stop_mowing")
    \/ BootStep(p, Ok)
    \/ \E o \in {Ok, Err29003} : SendStep(p, o)
    \/ \E o \in CallOutcomes, a \in SessionAnswers : HandshakeStep(p, o, a)
    \/ Finish(p)

AuthTransport ==
    \E id \in DOMAIN mqtt : MqttConnected(id) \/ MqttReady(id)

NextAuth == Backoff \/ Handshake \/ AuthTransport \/ AuthCaller("p1")

SpecAuth == InitAuth /\ [][NextAuth]_vars

(***************************************************************************)
(* The claims.                                                             *)
(***************************************************************************)
KnownCommand(command) == CommandTable(command) # ""

\* no collaborator has been asked anything by call record c
NoCollaboratorCall(c) ==
    /\ c.checks = 0 /\ c.connects = 0
    /\ c.bootcmds = 0 /\ c.bootruns = 0
    /\ c.sent = <<>>
    /\ c.recov = 0 /\ c.handshakes = 0 /\ c.refreshes = 0

\* C1: for every registered device, a successful call that follows a
\* successful call on the same device in which the bootstrap was completed
\* (no login, recovery or token refresh in between, and no collaborator
\* failure at all) sends no bootstrap sub-command: the bootstrap runs once
\* for the two calls.
C1_BootstrapOncePerDevice ==
    \A p \in Procs :
        LET c == calls[p]
        IN  (c.pc = "done" /\ c.status = 200 /\ c.prior /\ faults = 0
                /\ c.recov = 0 /\ c.refreshes = 0)
            => c.bootcmds = 0

\* C2: a call for a registered, valid, connected and ready device with a
\* command kind outside the table triggers no connect, sends no bootstrap
\* sub-command and sends no operator command, and it fails.
C2_UnknownCommandFailsFast ==
    \A p \in Procs :
        LET c == calls[p]
        IN  (c.pc # "idle" /\ c.ready0 /\ ~KnownCommand(c.cmd))
            => /\ c.connects = 0 /\ c.bootcmds = 0 /\ c.sent = <<>>
               /\ c.pc = "done" => c.status # 200

\* C3: when the send raised 29003 and re_establish_cloud_session failed
\* (returned False), the operator command is not sent a second time and the
\* call ends with the 401 authentication failure.
C3_FailedRecoveryNoResend ==
    \A p \in Procs :
        LET c == calls[p]
        IN  (c.recov > 0 /\ ~c.recovOk)
            => /\ Len(c.sent) <= 1
               /\ c.pc = "done" => c.status = 401

\* C4: recoveries of one account are serialized: the two calls are never
\* both inside re_establish_cloud_session (in its handshake) at once, the
\* second one waits for the first one's result.
C4_RecoverySerialized ==
    ~(calls["p1"].pc = "hs" /\ calls["p2"].pc = "hs"
        /\ AccountOf(sessions, calls["p1"].dev) = AccountOf(sessions, calls["p2"].dev))

\* C5: two concurrent first calls for the same device are never both inside
\* the first-command run of setup_device_communication.
C5_BootstrapExclusive ==
    ~(calls["p1"].pc = "boot" /\ calls["p2"].pc = "boot"
        /\ calls["p1"].mode = "first" /\ calls["p2"].mode = "first"
        /\ calls["p1"].dev = calls["p2"].dev)

\* C6: one call sends the operator command at most twice and runs
\* re_establish_cloud_session at most once.
C6_BoundedSendsAndRecovery ==
    \A p \in Procs : Len(calls[p].sent) <= 2 /\ calls[p].recov <= 1

\* C6 witness: a call that has run one recovery and sent the command twice
C6_Witness ==
    \E p \in Procs : Len(calls[p].sent) = 2 /\ calls[p].recov = 1

C10_UnknownDeviceNoCollaborator ==
    /\ \A p \in Procs :
          LET c == calls[p]
          IN  (c.pc # "idle" /\ c.dev \notin DOMAIN devices)
              => /\ c.pc = "done" /\ c.status = 500 /\ c.detail = "DeviceNotFound"
                 /\ NoCollaboratorCall(c)
    /\ (mcall.pc # "idle" /\ mcall.dev \notin DOMAIN mdevices)
       => /\ mcall.pc = "done" /\ ~mcall.ok /\ mcall.detail = "DeviceNotFound"
          /\ mcall.sent = <<>> /\ mcall.bootcmds = 0 /\ mcall.recov = 0

\* C10 witness: both dispatchers have failed a call for an unregistered
\* device while other devices are registered
C10_Witness ==
    /\ calls["p1"].pc = "done" /\ calls["p1"].dev \notin DOMAIN devices
    /\ DOMAIN devices # {}
    /\ mcall.pc = "done" /\ mcall.dev \notin DOMAIN mdevices
    /\ DOMAIN mdevices # {}

\* C11: a failed call is reported under its own error kind: an unknown
\* device as 404, a connection that is not ready as 503 and an unknown
\* command kind as 400.
C11_OwnErrorKinds ==
    \A p \in Procs :
        LET c == calls[p]
        IN  c.pc = "done"
            => /\ c.detail = "DeviceNotFound" => c.status = 404
               /\ c.detail = "ConnectionNotReady" => c.status = 503
               /\ c.detail = "UnknownCommand" => c.status = 400

\* C12: when validate_mqtt_connection has returned False the call is over
\* and has failed; the attempt in which it happened has sent no bootstrap
\* sub-command and no operator command, and no attempt, recovery or token
\* refresh follows it (on the first attempt: nothing was sent at all).
C12_NotReadyFailsAtOnce ==
    \A p \in Procs :
        LET c == calls[p]
        IN  c.detail = "ConnectionNotReady"
            => /\ c.pc = "done" /\ c.status # 200
               /\ c.validated = c.attempt
               /\ Len(c.sent) = c.attempt
               /\ c.recov + c.refreshes = c.attempt
               /\ c.attempt = 0 => (c.bootruns = 0 /\ c.bootcmds = 0)

\* C12 witness: the transport did not become ready within the ten polls of
\* the first attempt and the call has failed
C12_Witness ==
    \E p \in Procs :
        /\ calls[p].pc = "done" /\ calls[p].detail = "ConnectionNotReady"
        /\ calls[p].polls = ReadyPolls /\ calls[p].attempt = 0

C14_UnclassifiedErrorNotRetried ==
    \A p \in Procs :
        LET c == calls[p]
        IN  c.detail = "CommandFailed"
            => /\ c.pc = "done" /\ c.status = 500
               /\ Len(c.sent) = c.attempt + 1
               /\ c.recov + c.refreshes = c.attempt

\* C14 witness: the first send of a call raised an unclassified error
C14_Witness ==
    \E p \in Procs :
        /\ calls[p].pc = "done" /\ calls[p].detail = "CommandFailed"
        /\ Len(calls[p].sent) = 1 /\ calls[p].attempt = 0

\* the order of the handshake calls as claimed
ClaimedOrder ==
    <<"login", "get_region", "connect", "login_by_oauth", "aep_handle",
      "session_by_auth_code">>

\* number of successful calls among the first n of a log
OksIn(log, n) == Cardinality({j \in 1..n : log[j].ok})

\* every call of the log is of the step that follows the steps that have
\* succeeded so far: none is skipped, none is called before its turn
InClaimedOrder(log) ==
    \A i \in 1..Len(log) :
        LET k == OksIn(log, i - 1) + 1
        IN  IF k <= Len(ClaimedOrder) THEN log[i].step = ClaimedOrder[k]
            ELSE log[i].step \notin Range(ClaimedOrder)

\* each of the six steps has succeeded
AllSixOk(log) ==
    \A s \in Range(ClaimedOrder) :
        \E i \in 1..Len(log) : log[i].step = s /\ log[i].ok

\* C15: in every handshake run (login, authenticate_user,
\* re_establish_cloud_session) the collaborator calls are made in the
\* order login, get_region, connect, login_by_oauth, aep_handle,
\* session_by_auth_code, each step only after the one before it succeeded,
\* and a transport or a session is created (or the recovery reports
\* success) only after all six succeeded.
C15_HandshakeInOrder ==
    /\ InClaimedOrder(hrun.log)
    /\ (hrun.created \/ hrun.ok) => AllSixOk(hrun.log)
    /\ \A p \in Procs :
          /\ InClaimedOrder(calls[p].hlog)
          /\ (calls[p].handshakes > 0 /\ calls[p].recovOk) => AllSixOk(calls[p].hlog)

\* C15 witness: a login, an authentication and a recovery have each run
\* the six steps to the end, the recovery after a rate-limited step
C15_Witness ==
    /\ sessions # <<>> /\ active_sessions # <<>>
    /\ \E p \in Procs :
          /\ calls[p].recovOk /\ AllSixOk(calls[p].hlog)
          /\ Len(calls[p].hlog) > Len(ClaimedOrder)

C17_LoginSessionValid ==
    (hrun.pc = "done" /\ hrun.kind = "login" /\ hrun.ok)
    => \A d \in Range(DevicesCreated(hrun.account)) :
          is_cloud_session_valid(cloud[devices[d].cloud_client])

\* all outcomes of a sequence are failures
AllFailed(outcomes) == \A i \in 1..Len(outcomes) : outcomes[i] # Ok

\* C18: an exponential_backoff execution whose func failed at every call
\* has called it exactly max_retries times and has raised the error of the
\* last call.
C18_AlwaysFailingInvokedMaxTimes ==
    (bo.pc \in {"returned", "raised"} /\ AllFailed(bo.outcomes))
    => /\ bo.pc = "raised"
       /\ bo.invoked = bo.max_retries
       /\ bo.raised = bo.outcomes[Len(bo.outcomes)]

\* C19: an exponential_backoff execution whose func answered with
\* rate-limit errors and then succeeded at call k has returned after
\* exactly k calls, k <= max_retries, and rate-limit errors alone end an
\* execution only at call max_retries; a login run whose login call has
\* succeeded makes no further login call and does not fail at that step.
C19_RateLimitAbsorbed ==
    /\ (/\ bo.outcomes # <<>>
        /\ bo.outcomes[Len(bo.outcomes)] = Ok
        /\ \A i \in 1..(Len(bo.outcomes) - 1) : bo.outcomes[i] = RateLimited)
       => /\ bo.pc = "returned"
          /\ bo.invoked = Len(bo.outcomes)
          /\ bo.invoked <= bo.max_retries
    /\ (/\ bo.pc = "raised"
        /\ \A i \in 1..Len(bo.outcomes) : bo.outcomes[i] = RateLimited)
       => bo.invoked = bo.max_retries
    /\ \A i \in 1..Len(hrun.log) :
          (hrun.log[i].step = "login" /\ hrun.log[i].ok)
          => /\ \A j \in (i + 1)..Len(hrun.log) : hrun.log[j].step # "login"
             /\ ~(hrun.detail = "StepFailed" /\ hrun.step = 1)

\* C19 witness: a login has succeeded whose login call was rate limited
\* twice and succeeded at the third call
C19_Witness ==
    /\ hrun.pc = "done" /\ hrun.kind = "login" /\ hrun.ok
    /\ Len(hrun.log) >= 3
    /\ ~hrun.log[1].ok /\ ~hrun.log[2].ok
    /\ hrun.log[3].step = "login" /\ hrun.log[3].ok
    /\ Cardinality({i \in 1..Len(hrun.log) : hrun.log[i].step = "login"}) = 3

\* C20: for the initial_delay and max_delay of every execution and every
\* attempt index the computed delay does not exceed max_delay and every
\* sleep time drawn with jitter lies between half of it and the whole of
\* it; so do the delay and the sleep time of every execution that sleeps.
C20_DelayBounded ==
    /\ (bo.pc = "call" /\ bo.invoked = 0)
       => \A i \in 0..(MaxBackoffRetries + 2) :
             LET computed == ComputedDelay(bo.initial_delay, bo.max_delay, i)
             IN  /\ computed <= bo.max_delay
                 /\ \A t \in SleepTimes(computed, TRUE) :
                       computed <= t /\ t <= 2 * computed
    /\ bo.pc = "sleep"
       => /\ bo.computed <= bo.max_delay
          /\ bo.computed <= bo.slept /\ bo.slept <= 2 * bo.computed
          /\ ~bo.jitter => bo.slept = 2 * bo.computed

\* C20 witness: an execution sleeps a jittered time below the computed
\* delay, which max_delay has capped
C20_Witness ==
    /\ bo.pc = "sleep" /\ bo.jitter
    /\ bo.initial_delay * Pow2(bo.attempt) > bo.max_delay
    /\ bo.computed = bo.max_delay
    /\ bo.slept < 2 * bo.computed

\* the bootstrap sequence as the claims list it
ClaimedBootOrder ==
    << [name |-> "send_todev_ble_sync", arg |-> 3],
       [name |-> "get_report_cfg_stop", arg |-> 0],
       [name |-> "get_report_cfg", arg |-> 0],
       [name |-> "read_and_set_rtk_paring_code", arg |-> 1],
       [name |-> "send_todev_ble_sync", arg |-> 3],
       [name |-> "read_and_set_rtk_paring_code", arg |-> 1],
       [name |-> "read_and_set_rtk_paring_code", arg |-> 1],
       [name |-> "send_todev_ble_sync", arg |-> 3],
       [name |-> "read_and_set_rtk_paring_code", arg |-> 1] >>

\* the run recorded in call record c follows the claimed sequence: what it
\* has sent is a prefix of the sequence, a sub-command is sent only when all
\* the ones before it were acknowledged, and a complete run has sent all nine
RunInClaimedOrder(c) ==
    /\ Len(c.bootlog) <= Len(ClaimedBootOrder)
    /\ c.bootlog = SubSeq(ClaimedBootOrder, 1, Len(c.bootlog))
    /\ Len(c.bootlog) <= c.bootacks + 1
    /\ c.bootrun = "complete"
       => c.bootlog = ClaimedBootOrder /\ c.bootacks = Len(ClaimedBootOrder)

\* C21: every complete bootstrap run, of setup_device_communication and of
\* MowerService._ensure_device_communication, has sent exactly the nine
\* sub-commands sync(3), stop-report-config, get-report-config,
\* rtk-pairing(1), sync(3), rtk-pairing(1), rtk-pairing(1), sync(3),
\* rtk-pairing(1) in this order, each only after the previous one succeeded.
C21_NineSubCommandsInOrder ==
    /\ \A p \in Procs : RunInClaimedOrder(calls[p])
    /\ RunInClaimedOrder(mcall)

\* C22: when a sub-command of the first-command bootstrap has failed after
\* its retries, in handle_command_with_retry and in
\* MowerService.execute_command: the sub-commands after it are not sent, the
\* run does not count as done, and the call goes on to send the operator
\* command (of a known kind) in the same attempt instead of raising the
\* bootstrap's error to the caller.
C22_FailedBootstrapStillSends ==
    /\ \A p \in Procs :
          LET c == calls[p]
          IN  (c.mode = "first" /\ c.bootrun = "failed" /\ KnownCommand(c.cmd))
              => /\ Len(c.bootlog) = c.bootacks + 1
                 /\ c.pc = "send" \/ Len(c.sent) = c.attempt + 1
    /\ (mcall.bootrun = "failed" /\ CommandMap(mcall.cmd) # "")
       => /\ Len(mcall.bootlog) = mcall.bootacks + 1
          /\ ~AlreadySetUp(active_sessions, mcall.dev)
          /\ mcall.pc = "send" \/ Len(mcall.sent) = mcall.depth + 1

C24_ReloginBootstrapsAgain ==
    \A p \in Procs :
        LET c == calls[p]
        IN  (c.relogged /\ c.pc = "send" /\ c.sent = <<>>)
            => c.bootrun # "none"

\* C25: the cloud session of a client is replaced as a whole: in every
\* state a dispatch can observe, also while re_establish_cloud_session runs
\* and after it has failed, all the responses the client holds come from
\* the same handshake (none was stored again without the others), so that
\* a failed recovery leaves the previous session as it was.
C25_SessionReplacedAsAWhole ==
    \A id \in DOMAIN cloud :
        /\ cloud[id].login_run = cloud[id].session_run
        /\ cloud[id].region_run = cloud[id].session_run
        /\ cloud[id].aep_run = cloud[id].session_run

\* C26: when a login has failed, whatever the cause, the session store, the
\* account-to-transport map (mqtt_list) and the device registry are as they
\* were when the login started.
C26_FailedLoginChangesNothing ==
    (hrun.pc = "done" /\ hrun.kind = "login" /\ ~hrun.ok)
    => /\ Registries.sessions = hrun.before.sessions
       /\ Registries.mqtt_list = hrun.before.mqtt_list
       /\ Registries.devices = hrun.before.devices

\* C27: no bootstrap sub-command and no operator command is sent through a
\* device handle whose stopped flag is true: whenever a call is about to
\* send one (it is inside setup_device_communication or at the operator
\* command's queue_command), the handle of its device has stopped = False.
C27_NoSendThroughStoppedHandle ==
    \A p \in Procs :
        calls[p].pc \in {"boot", "send"} => ~devices[calls[p].dev].stopped

\* C27 witness: a call on a handle that login created stopped is at its
\* operator command after a complete bootstrap run, the handle enabled
C27_Witness ==
    \E p \in Procs :
        /\ calls[p].pc = "send"
        /\ calls[p].bootrun = "complete"
        /\ calls[p].bootruns = 1
        /\ ~devices[calls[p].dev].stopped

\* C28: a login for account a (the step that stores a new transport in
\* mqtt_list[a]) leaves every device handle that belongs to the session of
\* another account as it was: its transport binding, its stopped flag and
\* the bootstrap-done flag of its session are unchanged, also when both
\* accounts list a device of the same name.
C28_LoginTouchesOwnHandlesOnly ==
    [][\A a \in Accounts :
          mqtt_list'[a] # mqtt_list[a]
          => \A d \in DOMAIN devices :
                AccountOf(sessions, d) \notin {"", a}
                => /\ devices'[d] = devices[d]
                   /\ SetupDone(sessions', d) = SetupDone(sessions, d)]_vars

\* a call is inside validate_mqtt_connection
Validating(p) == calls[p].pc \in {"vwait", "poll"}

\* C29: validate_mqtt_connection ends after at most ten sleeps of its
\* readiness loop and never raises: inside it the connect has been
\* triggered if the function is waiting for the connection, the loop has
\* slept at most ReadyPolls times, a call that leaves it goes on (it
\* returned True) only in a step in which the transport reports ready, and
\* otherwise it returned False (the dispatcher's 503); and every call that
\* is inside it leaves it.
C29_ValidateBoundedAndTotal ==
    /\ [](\A p \in Procs :
            /\ calls[p].polls <= ReadyPolls
            /\ calls[p].pc = "vwait" => calls[p].connects > 0)
    /\ [][\A p \in Procs :
            LET transport == mqtt[devices[calls'[p].dev].mqtt]
            IN  /\ calls'[p].validated > calls[p].validated => transport.ready
                /\ (Validating(p) /\ ~Validating(p)'
                      /\ calls'[p].validated = calls[p].validated)
                   => /\ calls'[p].detail = "ConnectionNotReady"
                      /\ calls[p].polls = ReadyPolls
                /\ calls'[p].connects > calls[p].connects
                   => ~transport.connected]_vars
    /\ \A p \in Procs : Validating(p) ~> ~Validating(p)

\* C29 witness: a call has triggered the connect, slept in the readiness
\* loop and then found the transport ready
C29_Witness ==
    \E p \in Procs :
        /\ calls[p].validated = 1 /\ calls[p].attempt = 0
        /\ calls[p].connects = 1
        /\ calls[p].polls > 1

\* C30: a call that starts after refresh_session was called on the session
\* of its device (no bootstrap run for the device having completed since)
\* runs the bootstrap sequence before it sends the operator command.
C30_RefreshedSessionBootstrapsAgain ==
    \A p \in Procs :
        LET c == calls[p]
        IN  (c.refreshed /\ c.pc = "send" /\ c.sent = <<>>)
            => c.bootrun # "none"
====
